---------------------------- MODULE Spec2Model ----------------------------
(***************************************************************************)
(* A model of valve/source/rcon.py: the RCON message codec (RCONMessage),  *)
(* the response buffer (_ResponseBuffer) and the connection (RCON).        *)
(*                                                                         *)
(* Bytes are integers 0..255 and byte strings are sequences of them.       *)
(* Python exceptions are modelled as a "status"/"outcome" string naming    *)
(* the exception class that leaves the call.                               *)
(***************************************************************************)
EXTENDS Integers, Sequences, FiniteSets, TLC

(***************************************************************************)
(* Bounds of the model.                                                    *)
(***************************************************************************)
\* the largest number of requests one connection sends
MaxRequests == 3
\* the timeout a connection is configured with, in clock ticks, when it has one
MaxTimeout == 1
\* the longest message body the codec is exercised with
MaxBody == 2
\* the largest number of frames in a stream the response buffer is fed
MaxFrames == 2
\* the largest number of discard calls on the response buffer exercised on its own
MaxDiscards == 2

(***************************************************************************)
(* Python helpers: slices and struct's "<i".                               *)
(***************************************************************************)
Min(a, b) == IF a < b THEN a ELSE b
Max(a, b) == IF a > b THEN a ELSE b

\* s[:n], for any integer n (a negative n counts from the end)
PyTake(s, n) ==
    LET k == IF n >= 0 THEN Min(n, Len(s)) ELSE Max(Len(s) + n, 0)
    IN  SubSeq(s, 1, k)

\* s[n:], for any integer n
PyDrop(s, n) ==
    LET k == IF n >= 0 THEN Min(n, Len(s)) ELSE Max(Len(s) + n, 0)
    IN  SubSeq(s, k + 1, Len(s))

\* struct.pack("<i", v): four bytes, little-endian two's complement
PackInt32(v) ==
    LET low == IF v >= 0 THEN v ELSE (v + 2147483647) + 1
        top == IF v >= 0 THEN 0 ELSE 128
    IN  << low % 256,
           (low \div 256) % 256,
           (low \div 65536) % 256,
           (low \div 16777216) + top >>

\* struct.unpack("<i", b)[0] of a four-byte string
UnpackInt32(b) ==
    LET low == b[1] + 256 * b[2] + 65536 * b[3] + 16777216 * (b[4] % 128)
    IN  IF b[4] >= 128 THEN (low - 2147483647) - 1 ELSE low

(***************************************************************************)
(* RCONMessage                                                             *)
(***************************************************************************)
RESPONSE_VALUE == 0
AUTH_RESPONSE == 2
EXECCOMMAND == 2
AUTH == 3

\* the values of the enumeration RCONMessage.Type
Type == {RESPONSE_VALUE, AUTH_RESPONSE, EXECCOMMAND, AUTH}

NoMessage == [id |-> 0, type |-> 0, body |-> <<>>]

\* RCONMessage that keeps any type code as it is
RCONMessage_AnyType(id_, type_, body) ==
    [status |-> "ok", msg |-> [id |-> id_, type |-> type_, body |-> body]]

\* RCONMessage(id_, type_, body): Type(type_) raises ValueError for a
\* value that is no member of the enumeration
RCONMessage(id_, type_, body) ==
    IF type_ \in Type
    THEN [status |-> "ok", msg |-> [id |-> id_, type |-> type_, body |-> body]]
    ELSE [status |-> "ValueError", msg |-> NoMessage]

\* the frame layout produced by struct.pack("<iii", size, id, type) + body + terminators
Frame(id_, type_, body) ==
    LET terminated_body == body \o <<0, 0>>
        size == 8 + Len(terminated_body)
    IN  PackInt32(size) \o PackInt32(id_) \o PackInt32(type_) \o terminated_body

\* encode with a size field that counts its own four bytes
encode_SizeCountsItself(m) ==
    PackInt32(12 + Len(m.body) + 2) \o PackInt32(m.id) \o PackInt32(m.type)
        \o m.body \o <<0, 0>>

\* RCONMessage.encode
encode(m) == Frame(m.id, m.type, m.body)

DecodeFailure(status) == [status |-> status, msg |-> NoMessage, remainder |-> <<>>]

\* RCONMessage.decode: a message and the rest of the buffer, or the exception raised
decode(buffer_) ==
    IF Len(buffer_) < 4
    THEN DecodeFailure("RCONMessageError")
    ELSE
      LET size_field == SubSeq(buffer_, 1, 4)
          raw_message == SubSeq(buffer_, 5, Len(buffer_))
          size == UnpackInt32(size_field)
      IN  IF Len(raw_message) < size
          THEN DecodeFailure("RCONMessageError")
          ELSE
            LET message == PyTake(raw_message, size)
                remainder == PyDrop(raw_message, size)
                fixed_fields == PyTake(message, 8)
                body_and_terminators == PyDrop(message, 8)
            IN  IF Len(fixed_fields) # 8
                THEN DecodeFailure("struct.error")
                ELSE
                  LET id_ == UnpackInt32(SubSeq(fixed_fields, 1, 4))
                      type_ == UnpackInt32(SubSeq(fixed_fields, 5, 8))
                      body == PyTake(body_and_terminators, -2)
                      made == RCONMessage(id_, type_, body)
                  IN  IF made.status # "ok"
                      THEN DecodeFailure(made.status)
                      ELSE [status |-> "ok", msg |-> made.msg,
                            remainder |-> remainder]

(***************************************************************************)
(* _ResponseBuffer: a record [buffer, responses, discard_next]             *)
(***************************************************************************)
EmptyResponseBuffer == [buffer |-> <<>>, responses |-> <<>>, discard_next |-> 0]

\* an iteration of _consume's loop that queues a message it counts as discarded
Consumed_QueuesDiscarded(s, d) ==
    IF d.status = "RCONMessageError"
    THEN [s EXCEPT !.stop = TRUE]
    ELSE IF d.status # "ok"
    THEN [s EXCEPT !.stop = TRUE, !.raised = d.status]
    ELSE IF s.rb.discard_next = 0
    THEN [s EXCEPT !.rb.buffer = d.remainder,
                   !.rb.responses = Append(@, d.msg)]
    ELSE [s EXCEPT !.rb.buffer = d.remainder,
                   !.rb.responses = Append(@, d.msg),
                   !.rb.discard_next = @ - 1]

\* one iteration of _consume's loop, given what decode made of the buffer;
\* "stop" says that the loop has ended and "raised" names an exception that
\* _consume does not catch
Consumed(s, d) ==
    IF d.status = "RCONMessageError"
    THEN [s EXCEPT !.stop = TRUE]
    ELSE IF d.status # "ok"
    THEN [s EXCEPT !.stop = TRUE, !.raised = d.status]
    ELSE IF s.rb.discard_next = 0
    THEN [s EXCEPT !.rb.buffer = d.remainder,
                   !.rb.responses = Append(@, d.msg)]
    ELSE [s EXCEPT !.rb.buffer = d.remainder,
                   !.rb.discard_next = @ - 1]

\* the loop of _consume: while self._buffer
ConsumeStep(s) ==
    IF s.stop \/ s.rb.buffer = <<>>
    THEN [s EXCEPT !.stop = TRUE]
    ELSE Consumed(s, decode(s.rb.buffer))

\* _consume that decodes one message at most
_consume_Once(b) ==
    LET end == ConsumeStep([rb |-> b, raised |-> "none", stop |-> FALSE])
    IN  [rb |-> end.rb, raised |-> end.raised]

\* _ResponseBuffer._consume: the loop runs until the buffer is empty or decode
\* raises; every iteration that goes on removes at least four bytes
_consume(b) ==
    LET loop[n \in 0..(Len(b.buffer) \div 4 + 1)] ==
            IF n = 0
            THEN [rb |-> b, raised |-> "none", stop |-> FALSE]
            ELSE ConsumeStep(loop[n - 1])
        end == loop[Len(b.buffer) \div 4 + 1]
    IN  [rb |-> end.rb, raised |-> end.raised]

\* feed that keeps only the bytes of the last call
feed_Replaces(b, bytes_) == _consume([b EXCEPT !.buffer = bytes_])

\* _ResponseBuffer.feed
feed(b, bytes_) == _consume([b EXCEPT !.buffer = @ \o bytes_])

\* pop that takes the newest response
pop_Newest(b) ==
    IF b.responses = <<>>
    THEN [status |-> "RCONError", msg |-> NoMessage, rb |-> b]
    ELSE [status |-> "ok", msg |-> b.responses[Len(b.responses)],
          rb |-> [b EXCEPT !.responses = SubSeq(@, 1, Len(@) - 1)]]

\* _ResponseBuffer.pop: RCONError when there is no response
pop(b) ==
    IF b.responses = <<>>
    THEN [status |-> "RCONError", msg |-> NoMessage, rb |-> b]
    ELSE [status |-> "ok", msg |-> Head(b.responses),
          rb |-> [b EXCEPT !.responses = Tail(@)]]

\* discard that drops a queued response but schedules nothing
discard_Forgets(b) ==
    IF b.responses # <<>>
    THEN [b EXCEPT !.responses = Tail(@)]
    ELSE b

\* discard that drops the newest queued response
discard_Newest(b) ==
    IF b.responses # <<>>
    THEN [b EXCEPT !.responses = SubSeq(@, 1, Len(@) - 1)]
    ELSE [b EXCEPT !.discard_next = @ + 1]

\* discard that counts a discard also when it drops a queued response
discard_CountsToo(b) ==
    IF b.responses # <<>>
    THEN [b EXCEPT !.responses = Tail(@), !.discard_next = @ + 1]
    ELSE [b EXCEPT !.discard_next = @ + 1]

\* _ResponseBuffer.discard
discard(b) ==
    IF b.responses # <<>>
    THEN [b EXCEPT !.responses = Tail(@)]
    ELSE [b EXCEPT !.discard_next = @ + 1]

(***************************************************************************)
(* State                                                                   *)
(***************************************************************************)
VARIABLES
    \* the RCON object (RCON.__init__)
    _socket,         \* "None" or "socket": whether self._socket holds a socket object
    _closed,
    _authenticated,
    _timeout,        \* 0 stands for None, otherwise the timeout in clock ticks
    _responses,      \* the _ResponseBuffer
    \* the environment: the operating system's socket and the peer
    transport,       \* "absent", "unconnected", "connected" or "released"
    link,            \* "up", "silent" (the peer has stopped answering), "eof" (the
                     \* peer closed the stream) or "reset"
    wire,            \* bytes the peer has sent that recv has not returned yet
    \* the caller: the call in progress and the last call that ended
    pc,              \* "idle", "receive" (recv in _receive) or "read" (recv in execute)
    call,
    elapsed,         \* clock ticks since time_start of the running _receive
    result,
    scope,           \* the with statement: "manual", "out", "entering", "inside",
                     \* "exited" or "escaped"
    nsent,           \* number of requests handed to sendall successfully
    unwanted,        \* the numbers of the requests sent by a non-blocking execute
    opened,          \* number of sockets created by connect
    \* the codec exercised on its own
    codec,
    \* the response buffer exercised on its own: the bytes it is fed and what
    \* its user has taken out of it
    stream

vars == << _socket, _closed, _authenticated, _timeout, _responses, transport,
           link, wire, pc, call, elapsed, result, scope, nsent, unwanted, opened,
           codec, stream >>

rconVars == << _socket, _closed, _authenticated, _timeout, _responses >>
envVars == << transport, link, wire >>
callerVars == << pc, call, elapsed, result, scope, nsent, unwanted, opened >>

\* the password given to RCON.__init__ and the commands given to execute (ASCII)
Password == <<112>>
Commands == {<<115>>}

NoCall == [op |-> "none", pre |-> "none", block |-> FALSE, count |-> 0,
           got |-> <<>>, tag |-> 0]

NoResult == [op |-> "none", outcome |-> "none", banned |-> FALSE, value |-> <<>>,
             got |-> <<>>, pre |-> "none", block |-> FALSE, sent |-> 0,
             fault |-> "none", tag |-> 0]

NoCodec == [pc |-> "unused", via |-> "none", id |-> 0, type |-> 0, body |-> <<>>, rest |-> <<>>,
            bytes |-> <<>>, out |-> DecodeFailure("none")]

NoStream == [pc |-> "unused", items |-> <<>>, bytes |-> <<>>, fed |-> 0,
             feeds |-> "none", popped |-> <<>>, fate |-> <<>>, discards |-> 0,
             last |-> [op |-> "none", raised |-> "none"]]

\* the state of section 4.3's state machine that the flags stand for
State ==
    IF _closed THEN "Closed"
    ELSE IF _socket = "None" THEN "Unconnected"
    ELSE IF _authenticated THEN "Authenticated"
    ELSE "Connected"

\* RCON.__init__(address, password, timeout): timeout if timeout else None
RCONInit(timeout) ==
    /\ _timeout = (IF timeout # 0 THEN timeout ELSE 0)
    /\ _authenticated = FALSE
    /\ _socket = "None"
    /\ _closed = FALSE
    /\ _responses = EmptyResponseBuffer

Init ==
    /\ \E timeout \in {0, MaxTimeout} : RCONInit(timeout)
    /\ transport = "absent"
    /\ link = "up"
    /\ wire = <<>>
    /\ pc = "idle"
    /\ call = NoCall
    /\ elapsed = 0
    /\ result = NoResult
    /\ scope \in {"manual", "out"}
    /\ nsent = 0
    /\ unwanted = {}
    /\ opened = 0
    /\ codec = NoCodec
    /\ stream = NoStream

(***************************************************************************)
(* RCON: the pieces of the methods                                         *)
(***************************************************************************)
\* connect's check without "self._socket"
CannotConnect_SocketUnchecked == _closed

\* connect's check: self._closed or self._socket
CannotConnect == _closed \/ _socket # "None"

\* authenticate's check without "not self._socket"
CannotAuthenticate_SocketUnchecked == _closed

\* authenticate's check without "self._closed"
CannotAuthenticate_ClosedUnchecked == _socket = "None"

\* authenticate's check: self._closed or not self._socket
CannotAuthenticate == _closed \/ _socket = "None"

\* close's check: not self._socket
CannotClose == _socket = "None"

\* _receive's loop condition, evaluated at the top of each iteration
TimeLeft == _timeout = 0 \/ elapsed < _timeout

\* _receive's test that ends the loop with a result
ReceiveDone(responses, count) == Len(responses) = count

\* authenticate's test of the second response
Rejected(response) == response.id = -1

\* what self._socket.sendall(...) of _request does in the current state:
\* None has no sendall; an unconnected or closed socket, or a reset
\* connection, raises socket.error
SendOutcome ==
    IF _socket = "None" THEN "AttributeError"
    ELSE IF transport # "connected" \/ link = "reset" THEN "socket.error"
    ELSE "sent"

\* _request(type_, body): the frame handed to sendall
_request(type_, body) == encode(RCONMessage(0, type_, body).msg)

\* the end of _read after self._responses.feed(i_bytes)
Fed(f) == [rb |-> f.rb, close |-> FALSE, raised |-> f.raised]

\* _read, given what recv does: event "error" (recv raises socket.error) or
\* "data" (recv returns i_bytes, empty at the end of the stream)
_read(rb, event, i_bytes) ==
    IF event = "error" \/ i_bytes = <<>>
    THEN [rb |-> rb, close |-> TRUE, raised |-> "RCONCommunicationError"]
    ELSE Fed(feed(rb, i_bytes))

\* _receive goes back to its loop condition: another iteration, or the
\* timeout
Again(rb, got) ==
    IF TimeLeft
    THEN [rb |-> rb, close |-> FALSE, raised |-> "none",
          returned |-> FALSE, got |-> got]
    ELSE [rb |-> rb, close |-> TRUE, raised |-> "RCONTimeoutError",
          returned |-> FALSE, got |-> got]

\* _receive after responses.append(response)
Collected(rb, responses, count) ==
    IF ReceiveDone(responses, count)
    THEN [rb |-> rb, close |-> FALSE, raised |-> "none",
          returned |-> TRUE, got |-> responses]
    ELSE Again(rb, responses)

\* _receive after self._responses.pop()
Popped(p, rb, got, count) ==
    IF p.status # "ok"
    THEN Again(rb, got)
    ELSE Collected(p.rb, Append(got, p.msg), count)

\* _receive after self._read()
HasRead(r, got, count) ==
    IF r.raised # "none"
    THEN [rb |-> r.rb, close |-> r.close, raised |-> r.raised,
          returned |-> FALSE, got |-> got]
    ELSE Popped(pop(r.rb), r.rb, got, count)

\* one iteration of _receive's loop, from self._read() to the next evaluation
\* of the loop condition (or to the return, or to the exception)
_receive(rb, got, count, event, i_bytes) ==
    HasRead(_read(rb, event, i_bytes), got, count)

\* the end of authenticate without self.close() for a rejected password
AuthenticateEnd_NoClose(x) ==
    IF x.raised = "RCONCommunicationError"
    THEN [outcome |-> "RCONAuthenticationError", banned |-> TRUE,
          close |-> x.close, authenticated |-> _authenticated]
    ELSE IF x.raised # "none"
    THEN [outcome |-> x.raised, banned |-> FALSE,
          close |-> x.close, authenticated |-> _authenticated]
    ELSE IF x.got[2].id = -1
    THEN [outcome |-> "RCONAuthenticationError", banned |-> FALSE,
          close |-> FALSE, authenticated |-> _authenticated]
    ELSE [outcome |-> "ok", banned |-> FALSE,
          close |-> FALSE, authenticated |-> TRUE]

\* the end of authenticate that sets the flag before it looks at the reply
AuthenticateEnd_SetsFirst(x) ==
    IF x.raised = "RCONCommunicationError"
    THEN [outcome |-> "RCONAuthenticationError", banned |-> TRUE,
          close |-> x.close, authenticated |-> _authenticated]
    ELSE IF x.raised # "none"
    THEN [outcome |-> x.raised, banned |-> FALSE,
          close |-> x.close, authenticated |-> _authenticated]
    ELSE IF x.got[2].id = -1
    THEN [outcome |-> "RCONAuthenticationError", banned |-> FALSE,
          close |-> TRUE, authenticated |-> TRUE]
    ELSE [outcome |-> "ok", banned |-> FALSE,
          close |-> FALSE, authenticated |-> TRUE]

\* the end of authenticate, given how self._receive(2) ended
AuthenticateEnd(x) ==
    IF x.raised = "RCONCommunicationError"
    THEN [outcome |-> "RCONAuthenticationError", banned |-> TRUE,
          close |-> x.close, authenticated |-> _authenticated]
    ELSE IF x.raised # "none"
    THEN [outcome |-> x.raised, banned |-> FALSE,
          close |-> x.close, authenticated |-> _authenticated]
    ELSE IF Rejected(x.got[2])
    THEN [outcome |-> "RCONAuthenticationError", banned |-> FALSE,
          close |-> TRUE, authenticated |-> _authenticated]
    ELSE [outcome |-> "ok", banned |-> FALSE,
          close |-> FALSE, authenticated |-> TRUE]

\* the end of a blocking execute, given how self._receive(1) ended
ExecuteEnd(x) ==
    [outcome |-> IF x.raised # "none" THEN x.raised ELSE "ok", banned |-> FALSE,
     close |-> x.close, authenticated |-> _authenticated]

\* the record of a call that has ended
Ended(c, outcome, banned, value, sent, fault) ==
    [op |-> c.op, outcome |-> outcome, banned |-> banned, value |-> value,
     got |-> c.got, pre |-> c.pre, block |-> c.block, sent |-> sent,
     fault |-> fault, tag |-> c.tag]

\* a call that starts in the current state
Begin(op, block, count) ==
    [op |-> op, pre |-> State, block |-> block, count |-> count,
     got |-> <<>>, tag |-> 0]

\* __enter__ returns or raises: the with statement is entered or control leaves
ScopeAfter(outcome) ==
    IF scope = "entering"
    THEN (IF outcome = "ok" THEN "inside" ELSE "escaped")
    ELSE scope

\* the caller may call connect, authenticate and close itself; the body of a
\* with statement calls execute
CanCall == pc = "idle" /\ scope = "manual"

(***************************************************************************)
(* The peer                                                                *)
(***************************************************************************)
\* the replies of the peer to its n-th request: two to AUTH (an empty
\* RESPONSE_VALUE, then an AUTH_RESPONSE whose id is -1 for a wrong password),
\* one RESPONSE_VALUE to EXECCOMMAND, whose body is the request's number
PeerReplies(frame, n) ==
    LET req == decode(frame).msg
    IN  IF req.type = AUTH
        THEN { Frame(req.id, RESPONSE_VALUE, <<>>) \o Frame(id2, AUTH_RESPONSE, <<>>) :
                 id2 \in {req.id, -1} }
        ELSE { Frame(req.id, RESPONSE_VALUE, <<n>>) }

\* sendall(frame) returns: the request is on its way, and the peer, unless it
\* has stopped answering, sends its replies (recv returns them in pieces)
Sent(frame) ==
    /\ nsent' = nsent + 1
    /\ IF link = "up"
       THEN \E replies \in PeerReplies(frame, nsent + 1) : wire' = wire \o replies
       ELSE wire' = wire

(***************************************************************************)
(* RCON: the calls                                                         *)
(***************************************************************************)
\* the body of connect; onReturn and onRaise say where the with statement is
\* afterwards
ConnectCall(onReturn, onRaise) ==
    LET c == Begin("connect", FALSE, 0)
    IN  IF CannotConnect
        THEN /\ result' = Ended(c, "RCONError", FALSE, <<>>, 0, "none")
             /\ scope' = onRaise
             /\ UNCHANGED << rconVars, envVars, pc, call, elapsed, nsent, unwanted,
                             opened >>
        ELSE \E connected \in BOOLEAN :
             /\ _socket' = "socket"
             /\ opened' = opened + 1
             /\ transport' = IF connected THEN "connected" ELSE "unconnected"
             /\ result' = Ended(c, IF connected THEN "ok" ELSE "socket.error",
                                FALSE, <<>>, 0, "none")
             /\ scope' = IF connected THEN onReturn ELSE onRaise
             /\ UNCHANGED << _closed, _authenticated, _timeout, _responses, link,
                             wire, pc, call, elapsed, nsent, unwanted >>

\* RCON.connect
connect ==
    /\ CanCall
    /\ ConnectCall(scope, scope)
    /\ UNCHANGED << codec, stream >>

\* RCON.__enter__, up to the return of self.connect(); self.authenticate()
\* is the next call
__enter__ ==
    /\ pc = "idle"
    /\ scope = "out"
    /\ ConnectCall("entering", "escaped")
    /\ UNCHANGED << codec, stream >>

\* RCON.authenticate, up to the first recv of self._receive(2); called by the
\* caller or by __enter__
authenticate ==
    /\ pc = "idle"
    /\ scope \in {"manual", "entering"}
    /\ LET c == Begin("authenticate", TRUE, 2)
       IN  IF CannotAuthenticate \/ SendOutcome # "sent"
           THEN LET raised == IF CannotAuthenticate THEN "RCONError" ELSE SendOutcome
                IN  /\ result' = Ended(c, raised, FALSE, <<>>, 0, "none")
                    /\ scope' = ScopeAfter(raised)
                    /\ UNCHANGED << rconVars, envVars, pc, call, elapsed, nsent,
                                    unwanted, opened >>
           ELSE /\ nsent < MaxRequests
                /\ Sent(_request(AUTH, Password))
                /\ pc' = "receive"
                /\ call' = [c EXCEPT !.tag = nsent + 1]
                /\ elapsed' = 0
                /\ result' = NoResult
                /\ UNCHANGED << rconVars, transport, link, scope, unwanted,
                                opened >>
    /\ UNCHANGED << codec, stream >>

\* RCON.execute, up to the first recv: of self._receive(1) if block, of
\* self._read() otherwise
execute ==
    /\ pc = "idle"
    /\ scope \in {"manual", "inside"}
    /\ \E command \in Commands, block \in BOOLEAN :
       LET c == Begin("execute", block, IF block THEN 1 ELSE 0)
       IN  IF SendOutcome # "sent"
           THEN /\ result' = Ended(c, SendOutcome, FALSE, <<>>, 0, "none")
                /\ UNCHANGED << rconVars, envVars, pc, call, elapsed, scope,
                                nsent, unwanted, opened >>
           ELSE /\ nsent < MaxRequests
                /\ Sent(_request(EXECCOMMAND, command))
                /\ call' = [c EXCEPT !.tag = nsent + 1]
                /\ elapsed' = 0
                /\ IF block
                   THEN /\ pc' = "receive"
                        /\ UNCHANGED << _responses, unwanted >>
                   ELSE /\ pc' = "read"
                        /\ _responses' = discard(_responses)
                        /\ unwanted' = unwanted \cup {nsent + 1}
                /\ result' = NoResult
                /\ UNCHANGED << _socket, _closed, _authenticated, _timeout,
                                transport, link, scope, opened >>
    /\ UNCHANGED << codec, stream >>

\* a non-blocking execute ends with its self._read()
ReadEnds(r, fault) ==
    /\ _responses' = r.rb
    /\ _closed' = (_closed \/ r.close)
    /\ transport' = IF r.close THEN "released" ELSE transport
    /\ result' = Ended(call, IF r.raised = "none" THEN "ok" ELSE r.raised,
                       FALSE, <<>>, 1, fault)
    /\ pc' = "idle"
    /\ call' = NoCall
    /\ elapsed' = 0
    /\ UNCHANGED << _authenticated, scope >>

\* authenticate or a blocking execute ends with its self._receive(count)
ReceiveEnds(x, e, fault) ==
    /\ _responses' = x.rb
    /\ _closed' = (_closed \/ e.close)
    /\ transport' = IF e.close THEN "released" ELSE transport
    /\ _authenticated' = e.authenticated
    /\ result' = Ended([call EXCEPT !.got = x.got], e.outcome, e.banned,
                       IF call.op = "execute" /\ e.outcome = "ok"
                       THEN << x.got[1] >> ELSE <<>>,
                       1, fault)
    /\ pc' = "idle"
    /\ call' = NoCall
    /\ elapsed' = 0
    /\ scope' = ScopeAfter(e.outcome)

\* self._receive(count) has run one more iteration
ReceiveGoes(x, fault) ==
    IF ~x.returned /\ x.raised = "none"
    THEN /\ _responses' = x.rb
         /\ call' = [call EXCEPT !.got = x.got]
         /\ UNCHANGED << _closed, _authenticated, transport, result, pc, elapsed,
                         scope >>
    ELSE IF call.op = "authenticate"
    THEN ReceiveEnds(x, AuthenticateEnd(x), fault)
    ELSE ReceiveEnds(x, ExecuteEnd(x), fault)

\* what recv did, as the record of the call tells it
Fault(event, i_bytes) ==
    IF event = "error" THEN "error" ELSE IF i_bytes = <<>> THEN "eof" ELSE "none"

\* the pending recv of the call in progress returns i_bytes or raises, and the
\* call runs on to its next recv or to its end
Resume(event, i_bytes) ==
    IF pc = "read"
    THEN ReadEnds(_read(_responses, event, i_bytes), Fault(event, i_bytes))
    ELSE ReceiveGoes(_receive(_responses, call.got, call.count, event, i_bytes),
                     Fault(event, i_bytes))

\* self._socket.recv(4096) of _read stops blocking
recv ==
    /\ pc \in {"receive", "read"}
    /\ \/ /\ link = "reset"
          /\ Resume("error", <<>>)
          /\ UNCHANGED wire
       \/ /\ link = "eof"
          /\ wire = <<>>
          /\ Resume("data", <<>>)
          /\ UNCHANGED wire
       \/ /\ link # "reset"
          /\ wire # <<>>
          /\ \E n \in 1..Min(Len(wire), 4096) :
             /\ Resume("data", SubSeq(wire, 1, n))
             /\ wire' = SubSeq(wire, n + 1, Len(wire))
    /\ UNCHANGED << _socket, _timeout, link, nsent, unwanted, opened, codec, stream >>

\* close that marks the connection closed before its check
CloseCall_MarksFirst ==
    LET c == Begin("close", FALSE, 0)
    IN  /\ _closed' = TRUE
        /\ IF CannotClose
           THEN /\ result' = Ended(c, "RCONError", FALSE, <<>>, 0, "none")
                /\ UNCHANGED transport
           ELSE /\ transport' = "released"
                /\ result' = Ended(c, "ok", FALSE, <<>>, 0, "none")

\* the body of close
CloseCall ==
    LET c == Begin("close", FALSE, 0)
    IN  IF CannotClose
        THEN /\ result' = Ended(c, "RCONError", FALSE, <<>>, 0, "none")
             /\ UNCHANGED << _closed, transport >>
        ELSE /\ _closed' = TRUE
             /\ transport' = "released"
             /\ result' = Ended(c, "ok", FALSE, <<>>, 0, "none")

\* RCON.close
close ==
    /\ CanCall
    /\ CloseCall
    /\ UNCHANGED << _socket, _authenticated, _timeout, _responses, link, wire,
                    pc, call, elapsed, scope, nsent, unwanted, opened, codec, stream >>

\* RCON.__exit__: the with statement is left, normally or by an exception
\* raised in its body
__exit__ ==
    /\ pc = "idle"
    /\ scope = "inside"
    /\ CloseCall
    /\ scope' = "exited"
    /\ UNCHANGED << _socket, _authenticated, _timeout, _responses, link, wire,
                    pc, call, elapsed, nsent, unwanted, opened, codec, stream >>

(***************************************************************************)
(* The environment: the peer, the network and the clock                    *)
(***************************************************************************)
\* the peer stops answering: the stream stays open and nothing more arrives
PeerStall ==
    /\ transport = "connected"
    /\ link = "up"
    /\ link' = "silent"
    /\ UNCHANGED << rconVars, transport, wire, callerVars, codec, stream >>

\* the peer closes the stream: recv returns what is left, then nothing
PeerClose ==
    /\ transport = "connected"
    /\ link \in {"up", "silent"}
    /\ link' = "eof"
    /\ UNCHANGED << rconVars, transport, wire, callerVars, codec, stream >>

\* the connection fails: recv and sendall raise socket.error from now on
LinkReset ==
    /\ transport = "connected"
    /\ link # "reset"
    /\ link' = "reset"
    /\ wire' = <<>>
    /\ UNCHANGED << rconVars, transport, callerVars, codec, stream >>

\* time.monotonic() advances while _receive runs
Tick ==
    /\ pc = "receive"
    /\ _timeout # 0
    /\ elapsed < _timeout
    /\ elapsed' = elapsed + 1
    /\ UNCHANGED << rconVars, envVars, pc, call, result, scope, nsent, unwanted,
                    opened, codec, stream >>

Next ==
    \/ connect
    \/ __enter__
    \/ authenticate
    \/ execute
    \/ recv
    \/ close
    \/ __exit__
    \/ PeerStall
    \/ PeerClose
    \/ LinkReset
    \/ Tick

Spec == Init /\ [][Next]_vars

\* the pending recv has something to return or to raise: ENABLED recv
RecvReady ==
    /\ pc \in {"receive", "read"}
    /\ (link = "reset" \/ (link = "eof" /\ wire = <<>>) \/ wire # <<>>)

\* The clock runs, and a recv that has something to return does return: weak
\* fairness of Tick and of recv, the latter written out with RecvReady for
\* ENABLED recv.
FairSpec ==
    /\ Init
    /\ [][Next]_vars
    /\ WF_vars(Tick)
    /\ ([]<>(~RecvReady) \/ []<><<recv>>_vars)

(***************************************************************************)
(* The codec on its own: a message is built and encoded, or a frame with   *)
(* the same fields arrives from a peer, bytes follow it in the buffer, and *)
(* the buffer is decoded                                                   *)
(***************************************************************************)
MinInt32 == -2147483647 - 1
MaxInt32 == 2147483647

CodecIds == {MinInt32, -1, 0, 1, 5, 255, 256, 65536, 16777216, MaxInt32}
CodecTypes == Type \cup {-1, 1, 4, 255, MaxInt32}
CodecBytes == {0, 65, 255}
CodecBodies == UNION { [1..n -> CodecBytes] : n \in 0..MaxBody }
CodecRests == { <<>>, <<0>>, <<1, 2, 3>>, <<10, 0, 0, 0, 7>>,
                Frame(0, RESPONSE_VALUE, <<>>) }

CodecInit ==
    /\ RCONInit(0)
    /\ transport = "absent"
    /\ link = "up"
    /\ wire = <<>>
    /\ pc = "idle"
    /\ call = NoCall
    /\ elapsed = 0
    /\ result = NoResult
    /\ scope = "manual"
    /\ nsent = 0
    /\ unwanted = {}
    /\ opened = 0
    /\ stream = NoStream
    /\ \E id_ \in CodecIds, type_ \in CodecTypes, body \in CodecBodies,
          rest \in CodecRests :
          codec = [NoCodec EXCEPT !.pc = "start", !.id = id_, !.type = type_,
                                  !.body = body, !.rest = rest]

\* RCONMessage(id, type, body).encode(), followed by more bytes
CodecEncode ==
    /\ codec.pc = "start"
    /\ LET made == RCONMessage(codec.id, codec.type, codec.body)
       IN  IF made.status = "ok"
           THEN codec' = [codec EXCEPT !.pc = "encoded",
                                       !.bytes = encode(made.msg) \o codec.rest]
           ELSE codec' = [codec EXCEPT !.pc = "refused"]
    /\ UNCHANGED << rconVars, envVars, callerVars, stream >>

\* a frame with these fields, as a peer sends it, followed by more bytes
CodecFrame ==
    /\ codec.pc = "start"
    /\ codec' = [codec EXCEPT !.pc = "framed",
                              !.bytes = Frame(codec.id, codec.type, codec.body)
                                        \o codec.rest]
    /\ UNCHANGED << rconVars, envVars, callerVars, stream >>

\* RCONMessage.decode(bytes)
CodecDecode ==
    /\ codec.pc \in {"encoded", "framed"}
    /\ codec' = [codec EXCEPT !.pc = "decoded", !.via = codec.pc,
                              !.out = decode(codec.bytes)]
    /\ UNCHANGED << rconVars, envVars, callerVars, stream >>

CodecNext == CodecEncode \/ CodecFrame \/ CodecDecode

CodecSpec == CodecInit /\ [][CodecNext]_vars

(***************************************************************************)
(* The response buffer on its own: a stream of frames arrives in chunks of *)
(* any size (feed), and the user of the buffer calls pop and discard in    *)
(* between.  stream.items are the frames of the stream, stream.bytes their *)
(* concatenation and stream.fed the number of bytes fed so far;            *)
(* stream.popped are the messages pop has returned, and stream.fate tells  *)
(* for every message that has left the buffer, in the order of leaving,    *)
(* whether it was popped or dropped.                                       *)
(***************************************************************************)
\* the messages of the well-formed frames of a stream
BufferMessages ==
    { [id |-> 0, type |-> RESPONSE_VALUE, body |-> <<>>],
      [id |-> -1, type |-> AUTH_RESPONSE, body |-> <<65, 0>>] }

\* frames as the peer encodes them
WellFormedItems ==
    { [bytes |-> Frame(m.id, m.type, m.body), good |-> TRUE, msg |-> m] :
        m \in BufferMessages }

\* frames that decode rejects for another reason than incompleteness: a size
\* field below the eight bytes of the fixed fields, a type code outside the
\* enumeration, a negative size field
MalformedItems ==
    { [bytes |-> PackInt32(4) \o PackInt32(7), good |-> FALSE, msg |-> NoMessage],
      [bytes |-> Frame(1, 4, <<>>), good |-> FALSE, msg |-> NoMessage],
      [bytes |-> PackInt32(-1) \o PackInt32(0) \o PackInt32(0) \o <<0>>,
       good |-> FALSE, msg |-> NoMessage] }

BufferItems == WellFormedItems \cup MalformedItems

\* the streams the buffer is fed: well-formed frames, the last of which may be
\* replaced by a malformed one
BufferStreams ==
    UNION { { items \in [1..n -> BufferItems] :
                \A i \in 1..(n - 1) : items[i].good } : n \in 1..MaxFrames }

\* the bytes of the first n frames of a stream
Concat(items, n) ==
    LET c[i \in 0..n] == IF i = 0 THEN <<>> ELSE c[i - 1] \o items[i].bytes
    IN  c[n]

BufferInit ==
    /\ RCONInit(0)
    /\ transport = "absent"
    /\ link = "up"
    /\ wire = <<>>
    /\ pc = "idle"
    /\ call = NoCall
    /\ elapsed = 0
    /\ result = NoResult
    /\ scope = "manual"
    /\ nsent = 0
    /\ unwanted = {}
    /\ opened = 0
    /\ codec = NoCodec
    /\ \E items \in BufferStreams :
          stream = [NoStream EXCEPT !.pc = "run", !.items = items,
                                    !.bytes = Concat(items, Len(items))]

\* feed(bytes_) has returned or raised
FeedEnds(f, n) ==
    /\ _responses' = f.rb
    /\ stream' = [stream EXCEPT
                    !.fed = @ + n,
                    !.feeds = IF @ = "none" THEN "one" ELSE "several",
                    !.fate = @ \o [i \in 1..(_responses.discard_next
                                               - f.rb.discard_next) |-> "dropped"],
                    !.last = [op |-> "feed", raised |-> f.raised]]

\* _ResponseBuffer.feed with the next bytes of the stream, any number of them
BufferFeed ==
    /\ stream.pc = "run"
    /\ \E n \in 1..(Len(stream.bytes) - stream.fed) :
          FeedEnds(feed(_responses, SubSeq(stream.bytes, stream.fed + 1,
                                           stream.fed + n)), n)
    /\ UNCHANGED << _socket, _closed, _authenticated, _timeout, envVars,
                    callerVars, codec >>

\* pop() has returned or raised
PopEnds(p) ==
    /\ _responses' = p.rb
    /\ stream' = [stream EXCEPT
                    !.popped = IF p.status = "ok" THEN Append(@, p.msg) ELSE @,
                    !.fate = IF p.status = "ok" THEN Append(@, "popped") ELSE @,
                    !.last = [op |-> "pop",
                              raised |-> IF p.status = "ok" THEN "none"
                                         ELSE p.status]]

\* _ResponseBuffer.pop
BufferPop ==
    /\ stream.pc = "run"
    /\ PopEnds(pop(_responses))
    /\ UNCHANGED << _socket, _closed, _authenticated, _timeout, envVars,
                    callerVars, codec >>

\* discard() has returned
DiscardEnds(b) ==
    /\ _responses' = b
    /\ stream' = [stream EXCEPT
                    !.discards = @ + 1,
                    !.fate = IF Len(b.responses) < Len(_responses.responses)
                             THEN Append(@, "dropped") ELSE @,
                    !.last = [op |-> "discard", raised |-> "none"]]

\* _ResponseBuffer.discard
BufferDiscard ==
    /\ stream.pc = "run"
    /\ stream.discards < MaxDiscards
    /\ DiscardEnds(discard(_responses))
    /\ UNCHANGED << _socket, _closed, _authenticated, _timeout, envVars,
                    callerVars, codec >>

BufferNext == BufferFeed \/ BufferPop \/ BufferDiscard

BufferSpec == BufferInit /\ [][BufferNext]_vars

(***************************************************************************)
(* Properties of the connection (under Spec and FairSpec)                  *)
(***************************************************************************)
\* the connection is closed and its socket released
IsClosed == _closed /\ transport = "released"

\* a call has ended and its record is the last one
Returned(op) == pc = "idle" /\ result.op = op

\* C1: when the second of the two replies authenticate receives has id -1,
\* authenticate raises RCONAuthenticationError with banned false; when the
\* wait for the two replies ends with a communication error (recv raised, or
\* returned nothing), it raises RCONAuthenticationError with banned true; in
\* both cases the connection is closed and a connection that was not
\* authenticated is not authenticated afterwards.
C1_AuthenticateFailures ==
    Returned("authenticate") =>
        /\ (Len(result.got) = 2 /\ result.got[2].id = -1) =>
              /\ result.outcome = "RCONAuthenticationError"
              /\ ~result.banned
              /\ IsClosed
              /\ (result.pre = "Connected" => ~_authenticated)
        /\ (result.fault \in {"eof", "error"}) =>
              /\ result.outcome = "RCONAuthenticationError"
              /\ result.banned
              /\ IsClosed
              /\ (result.pre = "Connected" => ~_authenticated)
        /\ (result.outcome = "RCONAuthenticationError" /\ ~result.banned) =>
              (Len(result.got) = 2 /\ result.got[2].id = -1)
        /\ (result.outcome = "RCONAuthenticationError" /\ result.banned) =>
              result.fault \in {"eof", "error"}

\* authenticate, called on a connected connection, has received a second reply
\* with id -1 and has raised RCONAuthenticationError(banned = False)
C1_Witness ==
    /\ Returned("authenticate")
    /\ result.pre = "Connected"
    /\ Len(result.got) = 2
    /\ result.got[2].id = -1
    /\ result.outcome = "RCONAuthenticationError"
    /\ ~result.banned
    /\ IsClosed

\* connect, authenticate or execute has ended with a failure of the transport
\* or with the timeout
TransportFailure ==
    /\ pc = "idle"
    /\ result.op \in {"connect", "authenticate", "execute"}
    /\ \/ result.outcome \in {"socket.error", "RCONCommunicationError",
                              "RCONTimeoutError"}
       \/ result.outcome = "RCONAuthenticationError" /\ result.banned

\* C2: whenever connect, authenticate or execute ends with a failure of the
\* transport (connect fails, sendall fails, recv fails or returns nothing) or
\* with the timeout, the connection is closed and its socket released.
C2_FailureCloses == TransportFailure => IsClosed

\* C5 as the specification states it: authenticate called in any state but
\* Connected raises RCONError (InvalidState) and has sent nothing, so that an
\* authenticate that is waiting for replies was called in state Connected.
C5_OnlyFromConnected ==
    /\ (Returned("authenticate") /\ result.pre # "Connected") =>
          (result.outcome = "RCONError" /\ result.sent = 0)
    /\ (call.op = "authenticate") => call.pre = "Connected"

\* C5, amended: authenticate called in state Unconnected or Closed raises
\* RCONError (InvalidState) and has sent no request and read nothing; called
\* in state Authenticated it is not refused: it never raises RCONError there,
\* and an authenticate that is waiting for replies was called in state
\* Connected or Authenticated.
C5_NeedsOpenTransport ==
    /\ (Returned("authenticate") /\ result.pre \in {"Unconnected", "Closed"}) =>
          (result.outcome = "RCONError" /\ result.sent = 0)
    /\ (Returned("authenticate") /\ result.pre = "Authenticated") =>
          result.outcome # "RCONError"
    /\ (call.op = "authenticate") => call.pre \in {"Connected", "Authenticated"}

\* authenticate has been called on a closed connection and has raised RCONError
C5_Witness ==
    /\ Returned("authenticate")
    /\ result.pre = "Closed"
    /\ result.outcome = "RCONError"
    /\ nsent = 0

\* C6: once the connection is closed it stays closed, no socket is created or
\* released again, the authenticated flag does not change, and every connect
\* and authenticate that ends raises RCONError (InvalidState).
C6_ClosedIsTerminal ==
    [][ _closed =>
          /\ _closed'
          /\ _authenticated' = _authenticated
          /\ _socket' = _socket
          /\ transport' = transport
          /\ opened' = opened
          /\ nsent' = nsent
          /\ (result' # result /\ result'.op \in {"connect", "authenticate"}) =>
                result'.outcome = "RCONError"
          /\ (pc' # "idle") => (pc # "idle") ]_vars

\* connect has been called on a closed connection and has raised RCONError
C6_Witness ==
    /\ Returned("connect")
    /\ result.pre = "Closed"
    /\ result.outcome = "RCONError"
    /\ IsClosed

\* C8: a call that raises RCONError for the state it is called in (connect
\* with a socket or after close, authenticate without a socket or after
\* close, close without a socket) leaves the socket, the flags and the
\* response buffer as they were, and sends and reads nothing.
C8_InvalidStateChangesNothing ==
    [][ (result' # result /\ result'.outcome = "RCONError") =>
          /\ result'.op \in {"connect", "authenticate", "close"}
          /\ UNCHANGED << _socket, _closed, _authenticated, _timeout, _responses,
                          transport, link, wire, nsent, opened, pc >> ]_vars

\* close has been called before connect and has raised RCONError
C8_Witness ==
    /\ Returned("close")
    /\ result.pre = "Unconnected"
    /\ result.outcome = "RCONError"
    /\ _socket = "None"
    /\ ~_closed

\* message m is the peer's reply to a request of a non-blocking execute
Unwanted(m) == \E n \in unwanted : m.type = RESPONSE_VALUE /\ m.body = <<n>>

\* C9: a non-blocking execute sends its request and schedules a discard
\* without reading, ends with its first recv and returns nothing; and with a
\* peer that answers every request in order, in any pieces, the reply to a
\* non-blocking execute is never returned by a blocking execute and is never
\* in the queue of the response buffer.
C9_NonBlockingExecute ==
    [][ /\ (pc = "idle" /\ pc' = "read") =>
              /\ nsent' = nsent + 1
              /\ _responses' = discard(_responses)
              /\ SubSeq(wire', 1, Len(wire)) = wire
        /\ (pc = "read" /\ recv) =>
              /\ pc' = "idle"
              /\ result'.op = "execute"
              /\ ~result'.block
              /\ result'.value = <<>>
        /\ (pc' = "idle" /\ result'.op = "execute" /\ result'.outcome = "ok"
              /\ result'.block) => ~Unwanted(result'.value[1])
        /\ \A i \in DOMAIN _responses'.responses :
              ~Unwanted(_responses'.responses[i]) ]_vars

\* after a non-blocking execute whose reply has arrived in full, a blocking
\* execute has returned the reply to its own request
C9_Witness ==
    /\ Returned("execute")
    /\ result.block
    /\ result.outcome = "ok"
    /\ result.value[1].body = <<result.tag>>
    /\ (result.tag - 1) \in unwanted
    /\ wire = <<>>
    /\ _responses = EmptyResponseBuffer

\* C10: when control has left the with statement, by __exit__ or by an
\* exception raised in __enter__, a socket that connect created is closed.
C10_ScopeCloses ==
    scope \in {"exited", "escaped"} => (_socket # "None" => IsClosed)

\* a call waits in _receive with a timeout configured, and what the peer has
\* delivered does not complete the messages the call waits for
WaitsInVain ==
    /\ pc = "receive"
    /\ _timeout # 0
    /\ wire = <<>>
    /\ Len(call.got) + Len(_responses.responses) < call.count

\* C7: with a timeout configured, a call that waits in _receive for messages
\* the peer has not delivered ends with RCONTimeoutError and a closed
\* connection, unless the peer delivers more bytes or closes or fails the
\* stream.
C7_TimeoutFires ==
    WaitsInVain
        ~> \/ pc = "idle" /\ result.outcome = "RCONTimeoutError" /\ IsClosed
           \/ wire # <<>>
           \/ link \in {"eof", "reset"}

\* C11: connect creates a socket only when it is called in state Unconnected,
\* and the connection has left that state when it returns; called in any
\* other state (a socket exists already, or the connection is closed) it
\* raises RCONError (InvalidState); so a connection creates at most one
\* socket in its lifetime.
C11_ConnectOnce ==
    /\ opened <= 1
    /\ Returned("connect") =>
          /\ (result.pre # "Unconnected") <=> (result.outcome = "RCONError")
          /\ (result.outcome = "ok") =>
                (State = "Connected" /\ transport = "connected" /\ opened = 1)

\* connect has been called a second time, on a connected connection, and has
\* raised RCONError; one socket has been created
C11_Witness ==
    /\ Returned("connect")
    /\ result.pre = "Connected"
    /\ result.outcome = "RCONError"
    /\ opened = 1
    /\ transport = "connected"

\* C12: _receive(count) waits in a recv only while fewer than count messages
\* have been decoded for it (those it has popped and those in the queue of
\* the response buffer): once count messages have arrived, in however many
\* reads, the call needs no further read; and an authenticate that has
\* received both replies in its first read has returned.
C12_NoFurtherRead ==
    pc = "receive" => Len(call.got) + Len(_responses.responses) < call.count

\* the peer's reply to the n-th request of the connection, an EXECCOMMAND
ReplyTo(n) == [id |-> 0, type |-> RESPONSE_VALUE, body |-> <<n>>]

\* C17: with a peer that sends two replies to every AUTH request and one to
\* every EXECCOMMAND request, in the order of the requests and in any pieces,
\* a blocking execute that returns has received exactly one message and
\* returns it, and it is the reply to its own request: not the reply to an
\* earlier request, not a reply to AUTH, not a reply scheduled for discard.
C17_ReplyIsOwn ==
    (Returned("execute") /\ result.block /\ result.outcome = "ok") =>
        /\ result.got = << ReplyTo(result.tag) >>
        /\ result.value = result.got
        /\ result.tag \notin unwanted

\* a blocking execute that follows an authenticate and a non-blocking execute
\* has returned the reply to the third request
C17_Witness ==
    /\ Returned("execute")
    /\ result.block
    /\ result.outcome = "ok"
    /\ result.pre = "Authenticated"
    /\ result.tag = 3
    /\ unwanted = {2}
    /\ result.value = << ReplyTo(3) >>

\* C18: the authenticated flag is set only while the connection holds a socket
\* (so it is false in state Unconnected), and it changes only from false to
\* true, at the return of an authenticate that received two messages the
\* second of which has an id other than -1; connect, execute, close and an
\* authenticate that raises leave the flag as it was.
C18_AuthenticatedFlag ==
    [][ /\ _authenticated => _socket # "None"
        /\ _authenticated' => _socket' # "None"
        /\ State' = "Unconnected" => ~_authenticated'
        /\ (_authenticated' # _authenticated) =>
              /\ _authenticated'
              /\ call.op = "authenticate"
              /\ result'.op = "authenticate"
              /\ result'.outcome = "ok"
              /\ Len(result'.got) = 2
              /\ result'.got[2].id # -1
        /\ (result' # result /\ result'.op = "authenticate"
               /\ result'.outcome # "ok") => _authenticated' = _authenticated
        /\ (call.op = "execute" \/ call'.op = "execute"
               \/ (result' # result /\ result'.op \in {"connect", "execute", "close"}))
              => _authenticated' = _authenticated ]_vars

\* authenticate, called on a connected connection, has received a second
\* reply with id 0 and has returned; the flag is set
C18_Witness ==
    /\ Returned("authenticate")
    /\ result.pre = "Connected"
    /\ result.outcome = "ok"
    /\ Len(result.got) = 2
    /\ result.got[2].id = 0
    /\ _authenticated
    /\ _socket = "socket"

(***************************************************************************)
(* Properties of the codec (under CodecSpec)                               *)
(***************************************************************************)
\* what decode returns for the frame of codec's fields followed by codec.rest
DecodedAsGiven ==
    /\ codec.out.status = "ok"
    /\ codec.out.msg = [id |-> codec.id, type |-> codec.type, body |-> codec.body]
    /\ codec.out.remainder = codec.rest

\* C3: for every id of the signed 32-bit range, every type of the enumeration
\* and every body, the size field of encode's bytes is 4 + 4 + len(body) + 2,
\* and decode of those bytes followed by any rest (an empty one included)
\* returns a message with the same id, type and body and that rest as the
\* remainder.
C3_RoundTrip ==
    /\ codec.pc = "encoded" =>
          /\ UnpackInt32(SubSeq(codec.bytes, 1, 4)) = 4 + 4 + Len(codec.body) + 2
          /\ Len(codec.bytes) = 4 + 4 + 4 + Len(codec.body) + 2 + Len(codec.rest)
    /\ (codec.pc = "decoded" /\ codec.via = "encoded") => DecodedAsGiven

\* an encoded message of the smallest id, with a body and bytes after it, has
\* been decoded
C3_Witness ==
    /\ codec.pc = "decoded"
    /\ codec.via = "encoded"
    /\ codec.id = MinInt32
    /\ codec.type = AUTH
    /\ Len(codec.body) = MaxBody
    /\ codec.rest = <<1, 2, 3>>
    /\ DecodedAsGiven

AllGood == \A i \in DOMAIN stream.items : stream.items[i].good

\* the number of bytes of the first i frames of the stream
End(i) == Len(Concat(stream.items, i))

\* the number of frames that are complete in the first n bytes of the stream
Complete(n) == Cardinality({ i \in DOMAIN stream.items : End(i) <= n })

\* the messages of the frames of the stream, in stream order
Messages == [i \in DOMAIN stream.items |-> stream.items[i].msg]

\* C13: while a well-formed frame is fed in pieces, cut at any bytes, to a
\* buffer nothing else is done to, the queue is empty and the buffer holds the
\* bytes fed so far until the last piece is fed; then the buffer is in the
\* state that feeding the frame whole leaves it in: one queued message with
\* the id, type and body of the frame, and an empty tail.
C13_PartialDelivery ==
    (/\ stream.pc = "run"
     /\ stream.items[1].good
     /\ stream.discards = 0
     /\ stream.popped = <<>>
     /\ stream.fed <= End(1)) =>
        IF stream.fed < End(1)
        THEN _responses = [buffer |-> SubSeq(stream.bytes, 1, stream.fed),
                           responses |-> <<>>, discard_next |-> 0]
        ELSE /\ _responses = [buffer |-> <<>>,
                              responses |-> << stream.items[1].msg >>,
                              discard_next |-> 0]
             /\ _responses = feed(EmptyResponseBuffer, stream.items[1].bytes).rb
             /\ stream.last.raised \in {"none", "RCONError"}

\* a frame whose body ends with a zero byte has been fed in two or more
\* pieces and is queued
C13_Witness ==
    /\ stream.pc = "run"
    /\ stream.items[1].good
    /\ stream.items[1].msg.body = <<65, 0>>
    /\ stream.fed = End(1)
    /\ stream.feeds = "several"
    /\ stream.last = [op |-> "feed", raised |-> "none"]
    /\ _responses = [buffer |-> <<>>, responses |-> << stream.items[1].msg >>,
                     discard_next |-> 0]

\* a stream of two or more well-formed frames has been fed whole, in a single
\* feed call, to a buffer with discard counter 0, and discard is not called
Piped ==
    /\ stream.pc = "run"
    /\ AllGood
    /\ Len(stream.items) >= 2
    /\ stream.feeds = "one"
    /\ stream.fed = Len(stream.bytes)
    /\ stream.discards = 0

\* C14: after two or more concatenated well-formed frames are fed in one
\* call, with discard counter 0, the messages popped so far followed by the
\* queue are the messages of the frames in arrival order and the tail is
\* empty; every pop returns the oldest message not yet popped, and a pop
\* after the last one raises RCONError (EmptyBuffer) and changes nothing.
C14_Pipelining ==
    [][ /\ Piped' =>
              /\ stream'.popped \o _responses'.responses = Messages
              /\ _responses'.buffer = <<>>
              /\ _responses'.discard_next = 0
        /\ (Piped /\ BufferPop) =>
              IF stream.popped = Messages
              THEN /\ stream'.last = [op |-> "pop", raised |-> "RCONError"]
                   /\ stream'.popped = stream.popped
                   /\ _responses' = _responses
              ELSE /\ stream'.last = [op |-> "pop", raised |-> "none"]
                   /\ stream'.popped = SubSeq(Messages, 1, Len(stream.popped) + 1)
                   /\ _responses'.responses = Tail(_responses.responses) ]_vars

\* two different frames were fed in one call, both messages have been popped
\* in arrival order, and a third pop has raised RCONError
C14_Witness ==
    /\ Piped
    /\ Len(stream.items) = 2
    /\ stream.items[1] # stream.items[2]
    /\ stream.popped = Messages
    /\ stream.last = [op |-> "pop", raised |-> "RCONError"]
    /\ _responses = EmptyResponseBuffer

\* C15: discard called while the queue is empty adds one to the discard
\* counter and changes nothing else, and a feed of well-formed frames that
\* completes d frames with the counter at k drops the first min(k, d) of them,
\* takes as many from the counter and queues the others in order; discard
\* called while a message is queued removes the oldest queued message and
\* leaves the other messages, their order, the counter and the tail as they
\* were.
C15_DiscardOrdering ==
    [][ /\ BufferDiscard =>
              IF _responses.responses = <<>>
              THEN _responses' = [_responses EXCEPT !.discard_next = @ + 1]
              ELSE _responses' = [_responses EXCEPT !.responses = Tail(@)]
        /\ (AllGood /\ BufferFeed) =>
              LET k == _responses.discard_next
                  before == Complete(stream.fed)
                  after == Complete(stream'.fed)
                  dropped == Min(k, after - before)
              IN  /\ _responses'.discard_next = k - dropped
                  /\ _responses'.responses =
                        _responses.responses
                            \o SubSeq(Messages, before + dropped + 1, after) ]_vars

\* discard was called once on an empty queue, then two different frames were
\* fed in one call: the first message was dropped and the second is queued
C15_Witness ==
    /\ stream.pc = "run"
    /\ AllGood
    /\ Len(stream.items) = 2
    /\ stream.items[1] # stream.items[2]
    /\ stream.discards = 1
    /\ stream.feeds = "one"
    /\ stream.last = [op |-> "feed", raised |-> "none"]
    /\ stream.fate = << "dropped" >>
    /\ _responses = [buffer |-> <<>>, responses |-> << Messages[2] >>,
                     discard_next |-> 0]

\* the number of well-formed frames that are complete in the first n bytes
CompleteGood(n) ==
    Cardinality({ i \in DOMAIN stream.items : stream.items[i].good /\ End(i) <= n })

\* C16: every feed returns normally, also when a frame that decode rejects
\* for another reason than incompleteness (a size field below 8, a negative
\* size field, a type code outside the enumeration) has arrived: the messages
\* decoded are those of the well-formed frames before it, and the tail is
\* everything fed from the start of that frame on.
C16_FailureSilent ==
    (stream.pc = "run" /\ stream.last.op = "feed") =>
        /\ stream.last.raised = "none"
        /\ Len(stream.fate) + Len(_responses.responses) = CompleteGood(stream.fed)
        /\ _responses.buffer = SubSeq(stream.bytes, End(CompleteGood(stream.fed)) + 1,
                                      stream.fed)

\* C19: after any sequence of feed, pop and discard calls, whatever the bytes
\* fed, the discard counter is not negative, and when it is positive the
\* queue is empty.
C19_DiscardCounter ==
    stream.pc = "run" =>
        /\ _responses.discard_next >= 0
        /\ _responses.discard_next > 0 => _responses.responses = <<>>

\* a message was queued and popped, a discard was scheduled and dropped the
\* next message, and another discard is pending on an empty queue
C19_Witness ==
    /\ stream.pc = "run"
    /\ stream.fate = << "popped", "dropped" >>
    /\ stream.last = [op |-> "discard", raised |-> "none"]
    /\ _responses.discard_next = 1
    /\ _responses.responses = <<>>

\* the messages that pop has returned, according to stream.fate
PoppedInOrder ==
    LET left == [i \in DOMAIN stream.fate |-> i]
        taken == SelectSeq(left, LAMBDA i : stream.fate[i] = "popped")
    IN  [j \in DOMAIN taken |-> Messages[taken[j]]]

\* C20: for a stream of well-formed frames fed in any chunks, with pop and
\* discard called in between, feed never raises, and at every moment the
\* messages decoded so far (queued, popped or dropped) are as many as the
\* frames complete in the bytes fed so far; they left the buffer, and are
\* queued, in stream order; and the tail is what was fed after the last
\* complete frame, so that it does not start with a complete frame.
C20_StreamConservation ==
    (stream.pc = "run" /\ AllGood) =>
        /\ stream.last.op = "feed" => stream.last.raised = "none"
        /\ Len(stream.fate) + Len(_responses.responses) = Complete(stream.fed)
        /\ _responses.responses =
              SubSeq(Messages, Len(stream.fate) + 1, Complete(stream.fed))
        /\ stream.popped = PoppedInOrder
        /\ _responses.buffer =
              SubSeq(stream.bytes, End(Complete(stream.fed)) + 1, stream.fed)
        /\ _responses.buffer # <<>> =>
              decode(_responses.buffer).status = "RCONMessageError"

\* of two different frames the first has been fed, in pieces, and popped, and
\* the size field and more of the second is in the tail
C20_Witness ==
    /\ stream.pc = "run"
    /\ AllGood
    /\ Len(stream.items) = 2
    /\ stream.items[1] # stream.items[2]
    /\ stream.feeds = "several"
    /\ stream.last = [op |-> "feed", raised |-> "none"]
    /\ stream.popped = << Messages[1] >>
    /\ stream.fed > End(1) + 4
    /\ stream.fed < End(2)
    /\ _responses.buffer = SubSeq(stream.bytes, End(1) + 1, stream.fed)

=============================================================================
